---- MODULE Spec2Model ----
(***************************************************************************)
(* A model of the metasql Redshift Data API connection (package metasql,   *)
(* src/utils/utils.go lines 18-297): the connection's transaction state,   *)
(* the statement buffer and its Delayed Results, the commit protocol and   *)
(* the query rewriter.                                                     *)
(*                                                                         *)
(* A connection serves one caller at a time, so every handler is one       *)
(* atomic action.  The remote service is an input: every action that can   *)
(* reach it draws the service's answer from a small set.  `calls` records  *)
(* the submit calls (ExecuteStatement / BatchExecuteStatement) the last    *)
(* handler made; status polls only ever follow a submit, so an empty       *)
(* `calls` means the handler did not contact the service at all.           *)
(***************************************************************************)
EXTENDS Integers, Sequences, FiniteSets, TLC

\* ------------------------------------------------------------------ bounds

\* Statements the in-transaction exec may buffer over one behaviour.
MaxStmts == 2
\* Transaction handles BeginTx may hand out over one behaviour.
MaxTx == 2
\* Times one Delayed Result cell may be assigned before commit is cut off.
MaxWrites == 2
\* Longest sub-statement list in a batch response.
MaxSub == 2

\* --------------------------------------------------------------- constants

\* sql.LevelDefault, the only isolation level BeginTx accepts.
LevelDefault == 0
\* Some non-default isolation level (sql.LevelReadUncommitted).
LevelOther == 1

\* The nil pointer / nil interface value.
NilPtr == 0

\* The SQL texts callers submit, as sequences of characters.
Queries == { <<"a">>, <<"?">> }

\* The affected-row counts the remote service reports.
Rows == {1, 2}

Statuses == {"FINISHED", "FAILED", "ABORTED", "STARTED"}

TxOptionsSet == [Isolation : {LevelDefault, LevelOther}, ReadOnly : BOOLEAN]

\* driver.TxOptions{}
ZeroTxOptions == [Isolation |-> LevelDefault, ReadOnly |-> FALSE]

\* ------------------------------------------------------------------- state

VARIABLES
    conn,      \* the redshiftDataConn struct (transaction and liveness fields)
    heap,      \* the redshiftDataDelayedResult objects allocated so far; a
               \* pointer to one is its index; heap[c] is its embedded Result
    writes,    \* writes[c]: how many times heap[c] (the Result) was assigned
    txCount,   \* number of transaction handles handed out by BeginTx
    panicked,  \* the panic a handler raised ("none" while the program runs)
    op,        \* name of the last handler called
    arg,       \* its inputs
    err,       \* the error it returned ("nil" for none)
    ret,       \* the driver.Result it returned
    calls,     \* the remote submit calls it made, in order, with their answers
    pre,       \* conn as it was when the handler was called
    accepted,  \* the texts the caller's exec calls put into the open
               \* transaction, in order; empty while no transaction is open
    carried,   \* the texts the commits of the open transaction carried to
               \* the remote service, call after call; empty while none is open
    rw,        \* one run of rewriteQuery: its inputs and the scan loop's locals
    wt         \* one statement wait: the poll loop and the signals it races

connVars == <<conn, heap, writes, txCount, panicked, op, arg, err, ret, calls,
              pre, accepted, carried>>

vars == <<conn, heap, writes, txCount, panicked, op, arg, err, ret, calls, pre,
          accepted, carried, rw, wt>>

\* ------------------------------------------------------------ result values

\* A driver.Result interface value: nil, a *redshiftDataResult carrying its
\* affected-row count, or a pointer to a redshiftDataDelayedResult cell.
NilResult == [kind |-> "nil", val |-> NilPtr]
RowsResult(n) == [kind |-> "result", val |-> n]
DelayedRef(c) == [kind |-> "delayed", val |-> c]

\* result.go: NewResultWithSubStatementData
NewResultWithSubStatementData(st) == RowsResult(st.ResultRows)

\* newResult(output): the affected-row-count result of a single statement.
newResult(output) == RowsResult(output.ResultRows)

\* ----------------------------------------------------------- query rewriter

Digits == <<"0", "1", "2", "3", "4", "5", "6", "7", "8", "9">>

\* fmt.Sprintf("%d", n) for n >= 0
RECURSIVE Itoa(_)
Itoa(n) == IF n < 10 THEN <<Digits[n + 1]>>
           ELSE Itoa(n \div 10) \o <<Digits[(n % 10) + 1]>>

\* The locals of rewriteQuery once it scans: the position of the next rune,
\* the quote stack, the counter, the output runes, and what the last turn of
\* the loop appended to them.
Scanning(query, paramsCount, i, stack, exclamationCount, runes, emitted) ==
    [pc |-> "scan", query |-> query, paramsCount |-> paramsCount, i |-> i,
     stack |-> stack, exclamationCount |-> exclamationCount, runes |-> runes,
     emitted |-> emitted]

\* One turn of the scan loop of rewriteQuery, on the rune at position s.i.
scanRune(s) ==
    LET r == s.query[s.i] IN
    IF Len(s.stack) > 0 /\ r = s.stack[Len(s.stack)]
    THEN Scanning(s.query, s.paramsCount, s.i + 1,
                  SubSeq(s.stack, 1, Len(s.stack) - 1), s.exclamationCount,
                  Append(s.runes, r), <<r>>)
    ELSE IF Len(s.stack) = 0 /\ r = "?"
    THEN Scanning(s.query, s.paramsCount, s.i + 1, s.stack, s.exclamationCount + 1,
                  s.runes \o <<":">> \o Itoa(s.exclamationCount + 1),
                  <<":">> \o Itoa(s.exclamationCount + 1))
    ELSE IF Len(s.stack) = 0 /\ r = "$"
    THEN Scanning(s.query, s.paramsCount, s.i + 1, s.stack, s.exclamationCount,
                  Append(s.runes, ":"), <<":">>)
    ELSE Scanning(s.query, s.paramsCount, s.i + 1,
                  IF r \in {"\"", "'"} THEN Append(s.stack, r) ELSE s.stack,
                  s.exclamationCount, Append(s.runes, r), <<r>>)

\* return string(runes)
scanReturn(s) == [s EXCEPT !.pc = "done"]

\* The scan loop of rewriteQuery, run to its end.
RECURSIVE rewriteScan(_)
rewriteScan(s) ==
    IF s.i > Len(s.query) THEN scanReturn(s) ELSE rewriteScan(scanRune(s))

\* Variant: rewriteQuery without the test of paramsCount.
rewriteEntryAlwaysScans(query, paramsCount) ==
    Scanning(query, paramsCount, 1, <<>>, 0, <<>>, <<>>)
\* rewriteQuery up to its loop: the query is returned as it is when
\* paramsCount is 0, else the locals are set up for the scan.
rewriteEntry(query, paramsCount) ==
    IF paramsCount = 0
    THEN [Scanning(query, paramsCount, 1, <<>>, 0, query, <<>>) EXCEPT !.pc = "done"]
    ELSE Scanning(query, paramsCount, 1, <<>>, 0, <<>>, <<>>)

rewriteQuery(query, paramsCount) ==
    LET s == rewriteEntry(query, paramsCount) IN
    IF s.pc = "done" THEN s.runes ELSE rewriteScan(s).runes

\* utils.Nullif: a nil pointer for the empty string.
Nullif(str) == [isNil |-> (str = <<>>), str |-> str]

\* utils.Coalesce over one pointer.
Coalesce(p) == IF p.isNil THEN <<>> ELSE p.str

\* -------------------------------------------------------- parameter binder

\* The argument lists callers pass: driver.NamedValue{Name, Ordinal, Value}.
\* no arguments, or a named argument followed by an unnamed one.
ArgLists ==
    { <<>>,
      <<[Name |-> <<"p">>, Value |-> <<"v">>], [Name |-> <<>>, Value |-> <<"v">>]>> }

\* convertArgsToParameters: nil for no arguments, else one SqlParameter per
\* argument, named by its name or, without one, by its ordinal.
convertArgsToParameters(args) ==
    [k \in 1..Len(args) |->
        [Name  |-> Coalesce(IF Nullif(args[k].Name).isNil
                            THEN Nullif(Itoa(k)) ELSE Nullif(args[k].Name)),
         Value |-> args[k].Value]]

\* ------------------------------------------------------------ remote answers

\* The statement ids the service assigns and the error messages it reports.
StatementIds == {1, 2}
Messages == {"disk full", "cancelled by user"}

\* What the service answers to one submitted statement: the submit fails,
\* the wait is cancelled, or the wait ends with a described statement.
StmtOutcome(submitErr, waitErr, status, hasResultSet, resultRows) ==
    [submitErr |-> submitErr, waitErr |-> waitErr, Status |-> status,
     HasResultSet |-> hasResultSet, ResultRows |-> resultRows,
     Id |-> 1, Error |-> "disk full"]
StmtOutcomes ==
    { StmtOutcome(TRUE, FALSE, "SUBMITTED", FALSE, 0),
      StmtOutcome(FALSE, TRUE, "STARTED", FALSE, 0),
      StmtOutcome(FALSE, FALSE, "STARTED", FALSE, 0) }
    \cup { [StmtOutcome(FALSE, FALSE, st, FALSE, 0) EXCEPT !.Error = e] :
                st \in {"FAILED", "ABORTED"}, e \in Messages }
    \cup { [StmtOutcome(FALSE, FALSE, "FINISHED", h, n) EXCEPT !.Id = i] :
                h \in BOOLEAN, n \in Rows, i \in StatementIds }

\* The answers the connection's handlers are run against: one of each kind.
StmtSamples ==
    { StmtOutcome(TRUE, FALSE, "SUBMITTED", FALSE, 0),
      StmtOutcome(FALSE, FALSE, "FAILED", FALSE, 0),
      StmtOutcome(FALSE, FALSE, "FINISHED", FALSE, 1),
      StmtOutcome(FALSE, FALSE, "FINISHED", TRUE, 1) }

\* What the service answers to one batch: an error (submit failed, wait
\* cancelled, batch failed or aborted) or the sub-statement descriptors.
SubStatementLists ==
    UNION { [1..n -> [ResultRows : Rows]] : n \in 0..MaxSub }
BatchOutcomes ==
    [batchErr : {TRUE}, SubStatements : { <<>> }]
    \cup
    [batchErr : {FALSE}, SubStatements : SubStatementLists]

\* A remote submit call as `calls` records it: the request and the answer
\* the service gave to it.
ExecuteCall(params, o) ==
    [api |-> "ExecuteStatement",
     sqls |-> IF params.Sql.isNil THEN <<>> ELSE <<params.Sql.str>>,
     parameters |-> params.Parameters,
     answer |-> o]
BatchCall(input, o) ==
    [api |-> "BatchExecuteStatement", sqls |-> input.Sqls, parameters |-> <<>>,
     answer |-> o]

\* --------------------------------------------------------- handler results

\* What a handler leaves behind: the machine (conn, heap, writes), the value
\* and error it returns, the remote calls it made, and a panic if it raised one.
Machine == [conn |-> conn, heap |-> heap, writes |-> writes]

Return(m, r, e, cs) ==
    [m |-> m, ret |-> r, err |-> e, calls |-> cs, panic |-> "none"]

Panic(m, what) ==
    [m |-> m, ret |-> NilResult, err |-> "panic", calls |-> <<>>, panic |-> what]

\* p.Result = r for the Delayed Result cell p.
SetResult(m, p, r) ==
    [m EXCEPT !.heap[p] = r, !.writes[p] = @ + 1]

\* --------------------------------------------------------- statement waiter

\* conn.waitWithCancel: the poll loop, by its result.
waitWithCancel(o) ==
    IF o.waitErr
    THEN [err |-> "wait cancelled", output |-> o]
    ELSE [err |-> "nil", output |-> o]

\* fmt.Errorf("query aborted: %s", msg) and fmt.Errorf("query failed: %s", msg)
QueryAborted(msg) ==
    IF msg = "disk full" THEN "query aborted: disk full"
    ELSE "query aborted: cancelled by user"
QueryFailed(msg) ==
    IF msg = "disk full" THEN "query failed: disk full"
    ELSE "query failed: cancelled by user"

\* The result of conn.executeStatement: the paginator (the id of the statement
\* it reads, NilPtr for none), the described statement, the error, the calls.
StmtResult(p, output, e, call) ==
    [p |-> p, output |-> output, err |-> e, calls |-> call]

\* Variant: executeStatement that takes every status but aborted and failed
\* for success.
executeStatementLenient(params, o) ==
    LET call == <<ExecuteCall(params, o)>> IN
    IF o.submitErr
    THEN StmtResult(NilPtr, o, "execute statement error", call)
    ELSE LET w == waitWithCancel(o) IN
         IF w.err # "nil"
         THEN StmtResult(NilPtr, o, w.err, call)
         ELSE IF w.output.Status = "ABORTED"
         THEN StmtResult(NilPtr, o, QueryAborted(w.output.Error), call)
         ELSE IF w.output.Status = "FAILED"
         THEN StmtResult(NilPtr, o, QueryFailed(w.output.Error), call)
         ELSE IF ~w.output.HasResultSet
         THEN StmtResult(NilPtr, w.output, "nil", call)
         ELSE StmtResult(o.Id, w.output, "nil", call)
\* conn.executeStatement
executeStatement(params, o) ==
    LET call == <<ExecuteCall(params, o)>> IN
    IF o.submitErr
    THEN StmtResult(NilPtr, o, "execute statement error", call)
    ELSE LET w == waitWithCancel(o) IN
         IF w.err # "nil"
         THEN StmtResult(NilPtr, o, w.err, call)
         ELSE IF w.output.Status = "ABORTED"
         THEN StmtResult(NilPtr, o, QueryAborted(w.output.Error), call)
         ELSE IF w.output.Status = "FAILED"
         THEN StmtResult(NilPtr, o, QueryFailed(w.output.Error), call)
         ELSE IF w.output.Status # "FINISHED"
         THEN StmtResult(NilPtr, o, "query status is not finished", call)
         ELSE IF ~w.output.HasResultSet
         THEN StmtResult(NilPtr, w.output, "nil", call)
         ELSE StmtResult(o.Id, w.output, "nil", call)

\* conn.BatchExecuteStatement: one remote batch call, waited for.
BatchExecuteStatement(input, o) ==
    [desc |-> [SubStatements |-> o.SubStatements],
     err |-> IF o.batchErr THEN "batch execute error" ELSE "nil",
     calls |-> <<BatchCall(input, o)>>]

\* ------------------------------------------------------------- connection

\* NewConnection
NewConnection ==
    [isClosed |-> FALSE, aliveCh |-> "open", inTx |-> FALSE,
     txOpts |-> ZeroTxOptions, sqls |-> <<>>, delayedResult |-> <<>>]

\* conn.PrepareContext
PrepareContext(m, query) == Return(m, NilResult, "ErrNotSupported", <<>>)

\* Variant: Close without the test of isClosed.
CloseUnguarded(m) ==
    IF m.conn.aliveCh = "closed" THEN Panic(m, "close of closed channel")
    ELSE Return([m EXCEPT !.conn.isClosed = TRUE, !.conn.aliveCh = "closed"],
                NilResult, "nil", <<>>)
\* conn.Close
Close(m) ==
    IF m.conn.isClosed THEN Return(m, NilResult, "nil", <<>>)
    ELSE IF m.conn.aliveCh = "closed" THEN Panic(m, "close of closed channel")
    ELSE Return([m EXCEPT !.conn.isClosed = TRUE, !.conn.aliveCh = "closed"],
                NilResult, "nil", <<>>)

\* Variant: the text is buffered but no Delayed Result is appended for it.
BufferStatementNoResult(m, query) ==
    LET returned == Len(m.heap) + 1 IN
    Return([conn   |-> [m.conn EXCEPT !.sqls = Append(@, query)],
            heap   |-> Append(m.heap, NilResult),
            writes |-> Append(m.writes, 0)],
           DelayedRef(returned), "nil", <<>>)
\* The in-transaction branch of conn.ExecContext once the statement is
\* accepted: buffer the text, allocate its Delayed Result and append it, and
\* return a second, newly allocated Delayed Result to the caller.
BufferStatement(m, query) ==
    LET result   == Len(m.heap) + 1
        returned == Len(m.heap) + 2
    IN  Return([conn   |-> [m.conn EXCEPT !.sqls = Append(@, query),
                                          !.delayedResult = Append(@, result)],
                heap   |-> m.heap \o <<NilResult, NilResult>>,
                writes |-> m.writes \o <<0, 0>>],
               DelayedRef(returned), "nil", <<>>)

\* conn.ExecContext
ExecContext(m, query, args, o) ==
    IF m.conn.inTx
    THEN IF Len(args) > 0
         THEN Return(m, NilResult, "ErrNotSupported", <<>>)
         ELSE IF m.conn.txOpts.ReadOnly
         THEN Return(m, NilResult, "ErrNotSupported", <<>>)
         ELSE BufferStatement(m, query)
    ELSE LET params == [Sql |-> Nullif(rewriteQuery(query, Len(args))),
                        Parameters |-> convertArgsToParameters(args)]
             r == executeStatement(params, o)
         IN  IF r.err # "nil"
             THEN Return(m, NilResult, r.err, r.calls)
             ELSE Return(m, newResult(r.output), "nil", r.calls)

\* newRows(id, p): the row cursor handed to the caller.
newRows(p) == [kind |-> "rows", val |-> p]

\* Variant: conn.QueryContext without its in-transaction guard.
QueryContextInTx(m, query, args, o) ==
    LET params == [Sql |-> Nullif(rewriteQuery(query, Len(args))),
                   Parameters |-> convertArgsToParameters(args)]
        r == executeStatement(params, o)
    IN  IF r.err # "nil"
        THEN Return(m, NilResult, r.err, r.calls)
        ELSE Return(m, newRows(r.p), "nil", r.calls)
\* conn.QueryContext
QueryContext(m, query, args, o) ==
    IF m.conn.inTx
    THEN Return(m, NilResult, "ErrInTx", <<>>)
    ELSE LET params == [Sql |-> Nullif(rewriteQuery(query, Len(args))),
                        Parameters |-> convertArgsToParameters(args)]
             r == executeStatement(params, o)
         IN  IF r.err # "nil"
             THEN Return(m, NilResult, r.err, r.calls)
             ELSE Return(m, newRows(r.p), "nil", r.calls)

\* ------------------------------------------------------------ transactions

\* Variant: conn.BeginTx without its in-transaction guard.
BeginTxUnguarded(m, opts) ==
    IF opts.Isolation # LevelDefault
    THEN Return(m, NilResult, "ErrNotSupported", <<>>)
    ELSE Return([m EXCEPT !.conn.inTx = TRUE, !.conn.txOpts = opts],
                NilResult, "nil", <<>>)
\* conn.BeginTx up to the construction of the handle.
BeginTx(m, opts) ==
    IF m.conn.inTx
    THEN Return(m, NilResult, "ErrInTx", <<>>)
    ELSE IF opts.Isolation # LevelDefault
    THEN Return(m, NilResult, "ErrNotSupported", <<>>)
    ELSE Return([m EXCEPT !.conn.inTx = TRUE, !.conn.txOpts = opts],
                NilResult, "nil", <<>>)

\* Variant: cleanup that empties the buffers but leaves the transaction open.
cleanupStaysInTx(m) ==
    [m EXCEPT !.conn.sqls = <<>>, !.conn.delayedResult = <<>>]
\* Variant: cleanup that ends the transaction but keeps the buffers.
cleanupKeepsBuffers(m) ==
    [m EXCEPT !.conn.inTx = FALSE, !.conn.txOpts = ZeroTxOptions]
\* The cleanup closure of BeginTx.
cleanup(m) ==
    [m EXCEPT !.conn.inTx = FALSE, !.conn.txOpts = ZeroTxOptions,
              !.conn.sqls = <<>>, !.conn.delayedResult = <<>>]

\* The OnRollback closure.
OnRollback(m) ==
    IF ~m.conn.inTx
    THEN Return(m, NilResult, "ErrNotInTx", <<>>)
    ELSE Return(cleanup(m), NilResult, "nil", <<>>)

\* The batch input OnCommit builds from the buffer.
BatchInput(m) == [Sqls |-> m.conn.sqls]

\* Variant: the resolution loop indexes the Delayed Results from the end.
ResultCellReversed(m, i) == m.conn.delayedResult[Len(m.conn.delayedResult) + 1 - i]
\* The Delayed Result the resolution loop assigns for statement i.
ResultCell(m, i) == m.conn.delayedResult[i]

\* The resolution loop of OnCommit from index i on (1-based).
RECURSIVE ResolveSubStatements(_, _, _, _)
ResolveSubStatements(m, input, desc, i) ==
    IF i > Len(input.Sqls) THEN [m |-> m, err |-> "nil"]
    ELSE IF i > Len(desc.SubStatements)
    THEN [m |-> m, err |-> "sub statement not found"]
    ELSE ResolveSubStatements(
            IF ResultCell(m, i) # NilPtr
            THEN SetResult(m, ResultCell(m, i),
                           NewResultWithSubStatementData(desc.SubStatements[i]))
            ELSE m,
            input, desc, i + 1)

\* The single-statement path of OnCommit.
CommitSingle(m, so) ==
    LET r == ExecContext(m, m.conn.sqls[1], <<>>, so) IN
    IF r.err # "nil"
    THEN Return(r.m, NilResult, "commit error", r.calls)
    ELSE Return(IF r.m.conn.delayedResult[1] # NilPtr
                THEN SetResult(r.m, r.m.conn.delayedResult[1], r.ret)
                ELSE r.m,
                NilResult, "nil", r.calls)

\* The batch path of OnCommit.
CommitBatch(m, bo) ==
    LET input == BatchInput(m)
        b     == BatchExecuteStatement(input, bo)
    IN  IF b.err # "nil"
        THEN Return(m, NilResult, b.err, b.calls)
        ELSE LET l == ResolveSubStatements(m, input, b.desc, 1) IN
             IF l.err # "nil"
             THEN Return(l.m, NilResult, l.err, b.calls)
             ELSE Return(cleanup(l.m), NilResult, "nil", b.calls)

\* The OnCommit closure.
OnCommit(m, so, bo) ==
    IF ~m.conn.inTx
    THEN Return(m, NilResult, "ErrNotInTx", <<>>)
    ELSE IF Len(m.conn.sqls) = 0
    THEN Return(cleanup(m), NilResult, "nil", <<>>)
    ELSE IF Len(m.conn.sqls) # Len(m.conn.delayedResult)
    THEN Panic(m, "unexpected length of sqls and delayedResult")
    ELSE IF Len(m.conn.sqls) = 1
    THEN CommitSingle(m, so)
    ELSE CommitBatch(m, bo)

\* ------------------------------------------------------------------ actions

NoArg == [query |-> <<>>, args |-> <<>>, opts |-> ZeroTxOptions, tx |-> 0]

\* No rewriteQuery run and no statement wait is in progress.
RwIdle == [pc |-> "idle"]
WtIdle == [pc |-> "idle"]

\* The model's cut-offs: buffered statements (two cells each), handles and
\* assignments per cell.
WithinBounds(r, handles) ==
    /\ Len(r.m.heap) <= 2 * MaxStmts
    /\ handles <= MaxTx
    /\ \A c \in 1..Len(r.m.writes) : r.m.writes[c] <= MaxWrites

\* The texts of a sequence of remote calls, in the order they were carried.
RECURSIVE CallTexts(_)
CallTexts(cs) ==
    IF cs = <<>> THEN <<>> ELSE cs[1].sqls \o CallTexts(Tail(cs))

\* The handler named `name`, called with `a`, ran and left `r`.
Ran(name, a, r, handles) ==
    /\ panicked = "none"
    /\ WithinBounds(r, handles)
    /\ conn' = r.m.conn
    /\ heap' = r.m.heap
    /\ writes' = r.m.writes
    /\ txCount' = handles
    /\ panicked' = r.panic
    /\ op' = name
    /\ arg' = a
    /\ err' = r.err
    /\ ret' = r.ret
    /\ calls' = r.calls
    /\ pre' = conn
    /\ accepted' = IF ~r.m.conn.inTx \/ (name = "Begin" /\ r.err = "nil") THEN <<>>
                   ELSE IF name = "Exec" /\ conn.inTx /\ r.err = "nil"
                   THEN Append(accepted, a.query)
                   ELSE accepted
    /\ carried' = IF ~r.m.conn.inTx \/ (name = "Begin" /\ r.err = "nil") THEN <<>>
                  ELSE IF name = "Commit" /\ conn.inTx
                  THEN carried \o CallTexts(r.calls)
                  ELSE carried
    /\ Len(carried') <= 2 * MaxStmts
    /\ UNCHANGED <<rw, wt>>

\* The answers the service may give a handler: all of `outcomes` where the
\* handler has a path to the service, one (never looked at) where it returns
\* before any such path.
Answers(mayCall, outcomes) ==
    IF mayCall THEN outcomes ELSE { CHOOSE o \in outcomes : TRUE }

InitConn ==
    /\ conn = NewConnection
    /\ heap = <<>>
    /\ writes = <<>>
    /\ txCount = 0
    /\ panicked = "none"
    /\ op = "NewConnection"
    /\ arg = NoArg
    /\ err = "nil"
    /\ ret = NilResult
    /\ calls = <<>>
    /\ pre = NewConnection
    /\ accepted = <<>>
    /\ carried = <<>>

Init ==
    /\ InitConn
    /\ rw = RwIdle
    /\ wt = WtIdle

DoPrepare ==
    \E q \in Queries :
        Ran("Prepare", [NoArg EXCEPT !.query = q], PrepareContext(Machine, q), txCount)

DoClose ==
    Ran("Close", NoArg, Close(Machine), txCount)

DoBegin ==
    \E opts \in TxOptionsSet :
        LET r == BeginTx(Machine, opts) IN
        Ran("Begin", [NoArg EXCEPT !.opts = opts], r,
            IF r.err = "nil" THEN txCount + 1 ELSE txCount)

DoExec ==
    \E q \in Queries, args \in ArgLists, o \in Answers(~conn.inTx, StmtSamples) :
        Ran("Exec", [NoArg EXCEPT !.query = q, !.args = args],
            ExecContext(Machine, q, args, o), txCount)

DoQuery ==
    \E q \in Queries, args \in ArgLists, o \in Answers(~conn.inTx, StmtSamples) :
        Ran("Query", [NoArg EXCEPT !.query = q, !.args = args],
            QueryContext(Machine, q, args, o), txCount)

\* The handles a caller may use: the one of the newest transaction and the
\* one handed out before it (all older handles behave like that one).
Handles == { h \in 1..txCount : h + 1 >= txCount }

DoRollback ==
    \E tx \in Handles :
        Ran("Rollback", [NoArg EXCEPT !.tx = tx], OnRollback(Machine), txCount)

DoCommit ==
    \E tx \in Handles,
       so \in Answers(conn.inTx /\ Len(conn.sqls) = 1, StmtSamples),
       bo \in Answers(conn.inTx /\ Len(conn.sqls) > 1, BatchOutcomes) :
        Ran("Commit", [NoArg EXCEPT !.tx = tx], OnCommit(Machine, so, bo), txCount)

Next ==
    \/ DoPrepare
    \/ DoClose
    \/ DoBegin
    \/ DoExec
    \/ DoQuery
    \/ DoRollback
    \/ DoCommit

Spec == Init /\ [][Next]_vars

\* ------------------------------------------- single statements, every answer

\* ExecContext and QueryContext against every answer the service can give.
ExecAnswered ==
    \E q \in Queries, args \in ArgLists, o \in Answers(~conn.inTx, StmtOutcomes) :
        Ran("Exec", [NoArg EXCEPT !.query = q, !.args = args],
            ExecContext(Machine, q, args, o), txCount)

QueryAnswered ==
    \E q \in Queries, args \in ArgLists, o \in Answers(~conn.inTx, StmtOutcomes) :
        Ran("Query", [NoArg EXCEPT !.query = q, !.args = args],
            QueryContext(Machine, q, args, o), txCount)

NextStmt ==
    \/ ExecAnswered
    \/ QueryAnswered
    \/ DoClose

SpecStmt == Init /\ [][NextStmt]_vars

\* ------------------------------------------------ the rewriter, rune by rune

\* The runes of the queries and the queries rewriteQuery is run on.
Alphabet == {"a", "?", "$", "'", "\""}
MaxLen == 4
Strings == UNION { [1..n -> Alphabet] : n \in 0..MaxLen }
ParamCounts == {0, 1}

InitRewrite ==
    /\ InitConn
    /\ wt = WtIdle
    /\ \E query \in Strings, paramsCount \in ParamCounts :
            rw = [pc |-> "call", query |-> query, paramsCount |-> paramsCount]

RewriteCall ==
    /\ rw.pc = "call"
    /\ rw' = rewriteEntry(rw.query, rw.paramsCount)
    /\ UNCHANGED <<connVars, wt>>

RewriteRune ==
    /\ rw.pc = "scan"
    /\ rw.i <= Len(rw.query)
    /\ rw' = scanRune(rw)
    /\ UNCHANGED <<connVars, wt>>

RewriteReturn ==
    /\ rw.pc = "scan"
    /\ rw.i > Len(rw.query)
    /\ rw' = scanReturn(rw)
    /\ UNCHANGED <<connVars, wt>>

NextRewrite ==
    \/ RewriteCall
    \/ RewriteRune
    \/ RewriteReturn

SpecRewrite == InitRewrite /\ [][NextRewrite]_vars

\* ------------------------------------------ the statement wait, poll by poll

\* The statuses at which no further poll is needed.
Terminal == {"FINISHED", "FAILED", "ABORTED"}

\* The polls one wait may take.
MaxPolls == 3

\* The statuses a statement can move to from a status, on the remote side.
RemoteNext(status) ==
    IF status = "SUBMITTED" THEN {"STARTED"}
    ELSE IF status = "STARTED" THEN Terminal
    ELSE {}

\* One outstanding wait: where the loop stands, the caller's cancellation
\* signal, the statement's status on the remote side, the polls made, the
\* status last polled, the remote cancel calls made, and the result.
Waiting(ctxDone, status, polls, seen) ==
    [pc |-> "select", ctxDone |-> ctxDone, status |-> status, polls |-> polls,
     seen |-> seen, cancels |-> 0, err |-> "none", output |-> "none"]

\* Variant: the signals are looked at only after a poll that found the
\* statement still running.
cancelReadyAfterPoll(w, aliveCh) ==
    IF w.polls = 0 THEN {}
    ELSE (IF w.ctxDone THEN {"context canceled"} ELSE {})
         \cup (IF aliveCh = "closed" THEN {"connection closed"} ELSE {})
\* The cancellation signals that have fired, by the error the wait ends with.
cancelReady(w, aliveCh) ==
    (IF w.ctxDone THEN {"context canceled"} ELSE {})
    \cup (IF aliveCh = "closed" THEN {"connection closed"} ELSE {})

\* The wait ends on a signal that fired; nothing is sent to the remote side.
waitCancelled(w, e) == [w EXCEPT !.pc = "done", !.err = e]

\* One poll: the status is described; the wait ends on a terminal status
\* and goes back to waiting for the next tick or signal otherwise.
waitPoll(w) ==
    IF w.status \in Terminal
    THEN [w EXCEPT !.pc = "done", !.polls = @ + 1, !.seen = w.status,
                   !.err = "nil", !.output = w.status]
    ELSE [w EXCEPT !.polls = @ + 1, !.seen = w.status]

InitWait ==
    /\ InitConn
    /\ rw = RwIdle
    /\ wt = Waiting(FALSE, "SUBMITTED", 0, "none")

\* The poll tick fires and the status is described.
WaitPoll ==
    /\ wt.pc = "select"
    /\ wt.polls < MaxPolls
    /\ wt' = waitPoll(wt)
    /\ UNCHANGED <<connVars, rw>>

\* A cancellation signal that has fired is taken.
WaitCancelled ==
    /\ wt.pc = "select"
    /\ \E e \in cancelReady(wt, conn.aliveCh) : wt' = waitCancelled(wt, e)
    /\ UNCHANGED <<connVars, rw>>

\* The caller's context is cancelled or its deadline passes.
CtxCancel ==
    /\ wt.pc = "select"
    /\ ~wt.ctxDone
    /\ wt' = [wt EXCEPT !.ctxDone = TRUE]
    /\ UNCHANGED <<connVars, rw>>

\* The statement moves on at the remote side.
RemoteStep ==
    /\ wt.pc = "select"
    /\ \E st \in RemoteNext(wt.status) : wt' = [wt EXCEPT !.status = st]
    /\ UNCHANGED <<connVars, rw>>

\* The connection is closed while the wait is outstanding.
CloseMidWait ==
    /\ wt.pc = "select"
    /\ DoClose

NextWait ==
    \/ WaitPoll
    \/ WaitCancelled
    \/ CtxCancel
    \/ RemoteStep
    \/ CloseMidWait

SpecWait == InitWait /\ [][NextWait]_vars

\* ------------------------------------------------------------------ claims

\* The Delayed Result cell c holds an outcome.
Resolved(c) == heap[c].kind # "nil"

\* The last handler was a commit called while InTransaction with n buffered
\* statements.
CommittedWith(n) == op = "Commit" /\ pre.inTx /\ Len(pre.sqls) = n

\* The last handler was a batch commit whose batch call the service answered
\* with a sub-statement list.
BatchAnswered ==
    /\ op = "Commit" /\ pre.inTx /\ Len(pre.sqls) >= 2
    /\ Len(calls) = 1
    /\ ~calls[1].answer.batchErr

\* C1: a commit of exactly one buffered statement makes exactly one remote
\* single-statement submit, for that statement's text, and no batch call;
\* when the statement finishes, pendingResults[0] holds the affected-row
\* count the service reported.
C1_SingleCommitSubmits ==
    CommittedWith(1) =>
        /\ Len(calls) = 1
        /\ calls[1].api = "ExecuteStatement"
        /\ calls[1].sqls = <<pre.sqls[1]>>
        /\ (err = "nil" =>
                heap[pre.delayedResult[1]] = RowsResult(calls[1].answer.ResultRows))

\* C2: every commit that returns success leaves the connection Idle with
\* both buffers empty and the transaction options reset.
C2_CommitSuccessIsIdle ==
    (op = "Commit" /\ err = "nil") =>
        /\ ~conn.inTx
        /\ conn.sqls = <<>>
        /\ conn.delayedResult = <<>>
        /\ conn.txOpts = ZeroTxOptions

C4_UnderEnumerationAllOrNone ==
    (BatchAnswered /\ Len(calls[1].answer.SubStatements) < Len(pre.sqls)) =>
        /\ err # "nil"
        /\ \/ \A i \in 1..Len(pre.delayedResult) : Resolved(pre.delayedResult[i])
           \/ \A i \in 1..Len(pre.delayedResult) : ~Resolved(pre.delayedResult[i])

\* C5: after a commit that returns an error the connection holds no buffered
\* statement and no Delayed Result of the abandoned transaction.
C5_FailedCommitAbandons ==
    (op = "Commit" /\ pre.inTx /\ err \notin {"nil", "panic"}) =>
        /\ conn.sqls = <<>>
        /\ conn.delayedResult = <<>>

\* C6: a successful exec inside a transaction returns the very Delayed Result
\* it appended to pendingResults.
C6_ExecReturnsBufferedResult ==
    (op = "Exec" /\ pre.inTx /\ err = "nil") =>
        /\ Len(conn.delayedResult) = Len(pre.delayedResult) + 1
        /\ ret = DelayedRef(conn.delayedResult[Len(conn.delayedResult)])

\* C7: in every reachable state the two buffers have the same length, and
\* the count-mismatch panic of commit is never raised.
C7_BuffersAligned ==
    /\ Len(conn.sqls) = Len(conn.delayedResult)
    /\ panicked = "none"

\* A commit that went past the count check with statements buffered, and
\* left statements buffered.
C7_Witness ==
    /\ op = "Commit" /\ pre.inTx
    /\ Len(pre.sqls) >= 1
    /\ Len(conn.sqls) >= 2

\* C8: no Delayed Result is assigned more than once.
C8_ResolvedOnce ==
    \A c \in 1..Len(writes) : writes[c] <= 1

\* C9: begin while InTransaction fails, begin succeeds only from Idle, commit
\* and rollback while Idle fail with the not-in-transaction error; each
\* rejected call makes no remote call and leaves the connection as it was.
C9_ProtocolStateErrors ==
    /\ (op = "Begin" /\ pre.inTx) =>
            err = "ErrInTx" /\ calls = <<>> /\ conn = pre
    /\ (op = "Begin" /\ err = "nil") => ~pre.inTx /\ conn.inTx
    /\ (op \in {"Commit", "Rollback"} /\ ~pre.inTx) =>
            err = "ErrNotInTx" /\ calls = <<>> /\ conn = pre

\* A second begin rejected while statements are buffered.
C9_Witness ==
    /\ op = "Begin" /\ pre.inTx
    /\ Len(pre.sqls) >= 1
    /\ txCount >= 1

\* The last call was one of the capability-unsupported operations.
Unsupported ==
    \/ op = "Exec" /\ pre.inTx /\ Len(arg.args) > 0
    \/ op = "Exec" /\ pre.inTx /\ pre.txOpts.ReadOnly
    \/ op = "Query" /\ pre.inTx
    \/ op = "Begin" /\ arg.opts.Isolation # LevelDefault
    \/ op = "Prepare"

\* C10: every capability-unsupported operation returns an error, makes no
\* remote call and leaves the connection as it was.
C10_UnsupportedRejected ==
    Unsupported => err # "nil" /\ calls = <<>> /\ conn = pre

\* A query rejected inside a transaction that holds a buffered statement.
C10_Witness ==
    /\ op = "Query" /\ pre.inTx
    /\ Len(pre.sqls) >= 1
    /\ err = "ErrInTx"

\* C11: a commit of a transaction with no buffered statements, and so every
\* commit of a read-only transaction, succeeds, makes no remote call and
\* leaves the connection Idle.
C11_EmptyCommit ==
    /\ CommittedWith(0) => err = "nil" /\ calls = <<>> /\ ~conn.inTx
    /\ (op = "Commit" /\ pre.inTx /\ pre.txOpts.ReadOnly) =>
            err = "nil" /\ calls = <<>> /\ ~conn.inTx

\* A successful commit of a read-only transaction, which holds no statement.
C11_Witness ==
    /\ op = "Commit" /\ pre.inTx /\ pre.txOpts.ReadOnly
    /\ Len(pre.sqls) = 0
    /\ err = "nil"

\* The texts in a sequence of texts.
Texts(seq) == { seq[i] : i \in 1..Len(seq) }

\* The texts the last handler carried to the remote service.
Submitted == UNION { Texts(calls[k].sqls) : k \in 1..Len(calls) }

\* C12: rollback from InTransaction succeeds, makes no remote call, empties
\* both buffers and leaves the connection Idle; whenever begin succeeds the
\* buffers are empty; and a commit carries to the service only texts that
\* exec accepted since the begin of the transaction it commits.
C12_RollbackDiscards ==
    /\ (op = "Rollback" /\ pre.inTx) =>
            /\ err = "nil" /\ calls = <<>>
            /\ ~conn.inTx /\ conn.sqls = <<>> /\ conn.delayedResult = <<>>
    /\ (op = "Begin" /\ err = "nil") =>
            /\ pre.sqls = <<>> /\ pre.delayedResult = <<>>
            /\ conn.sqls = <<>> /\ conn.delayedResult = <<>>
    /\ (op = "Commit" /\ pre.inTx) =>
            /\ Texts(pre.sqls) \subseteq Texts(IF conn.inTx THEN accepted ELSE pre.sqls)
            /\ Submitted \subseteq Texts(pre.sqls)
    /\ conn.inTx => Texts(conn.sqls) \subseteq Texts(accepted)

\* A rollback of the second transaction of a connection, which held buffered
\* statements and their Delayed Results.
C12_Witness ==
    /\ op = "Rollback" /\ pre.inTx
    /\ txCount = 2 /\ arg.tx = 2
    /\ Len(pre.sqls) >= 1 /\ Len(pre.delayedResult) >= 1
    /\ err = "nil"
    /\ conn.sqls = <<>> /\ conn.delayedResult = <<>>

\* C20: Commit or Rollback on the handle of an ended transaction, called
\* while a later transaction is open, returns the not-in-transaction error
\* and leaves the later transaction as it was.
C20_StaleHandleRejected ==
    (op \in {"Commit", "Rollback"} /\ pre.inTx /\ arg.tx < txCount) =>
        err = "ErrNotInTx" /\ conn = pre

\* C15: Close is idempotent and isClosed is monotonic: isClosed is true
\* exactly when the alive signal is closed, no handler turns it back to
\* false, every Close returns no error and leaves the connection closed, and
\* a Close of a closed connection changes nothing and never closes the
\* signal a second time.
C15_CloseIdempotent ==
    /\ conn.isClosed <=> conn.aliveCh = "closed"
    /\ pre.isClosed => conn.isClosed
    /\ panicked # "close of closed channel"
    /\ op = "Close" => err = "nil" /\ conn.isClosed
    /\ (op = "Close" /\ pre.isClosed) => conn = pre

\* A second Close, on a connection that was already closed.
C15_Witness ==
    /\ op = "Close"
    /\ pre.isClosed /\ pre.aliveCh = "closed"
    /\ err = "nil"

\* The answer to the one submit of the last single-statement execution, and
\* whether its wait ended with a described statement.
StmtAnswer == calls[1].answer
Described == ~StmtAnswer.submitErr /\ ~StmtAnswer.waitErr

RECURSIVE OpenQuote(_, _)
OpenQuote(query, n) ==
    IF n = 0 THEN <<>>
    ELSE LET open == OpenQuote(query, n - 1)
             r == query[n]
         IN  IF open = <<>>
             THEN IF r \in {"\"", "'"} THEN <<r>> ELSE <<>>
             ELSE IF r = open[1] THEN <<>> ELSE open

\* The number of "?" outside quotes among the first n runes of a query.
RECURSIVE BareCount(_, _)
BareCount(query, n) ==
    IF n = 0 THEN 0
    ELSE BareCount(query, n - 1)
         + (IF query[n] = "?" /\ OpenQuote(query, n - 1) = <<>> THEN 1 ELSE 0)

\* The scan has read at least one rune; the last one read and whether it
\* stood outside quotes.
ScannedOne == rw.pc \in {"scan", "done"} /\ rw.paramsCount > 0 /\ rw.i > 1
LastRune == rw.query[rw.i - 1]
LastBare == OpenQuote(rw.query, rw.i - 2) = <<>>

\* C16: with paramCount > 0 the k-th "?" outside quotes is replaced by ":k",
\* the counter counts exactly the "?" outside quotes read so far, and a "?"
\* inside a quoted literal is copied unaltered.
C16_BareQuestionMarksNumbered ==
    ScannedOne =>
        /\ rw.exclamationCount = BareCount(rw.query, rw.i - 1)
        /\ (LastRune = "?" /\ LastBare) =>
                rw.emitted = <<":">> \o Itoa(BareCount(rw.query, rw.i - 1))
        /\ (LastRune = "?" /\ ~LastBare) => rw.emitted = <<"?">>

\* C17: with paramCount > 0 a "$" outside quotes is rewritten to ":", a "$"
\* inside an open quote is copied, and every rune other than a bare "?" and
\* a bare "$" is copied to the output at its place.
C17_BareDollarRewritten ==
    ScannedOne =>
        /\ (LastRune = "$" /\ LastBare) => rw.emitted = <<":">>
        /\ (LastRune = "$" /\ ~LastBare) => rw.emitted = <<"$">>
        /\ (LastRune \notin {"?", "$"}) => rw.emitted = <<LastRune>>
        /\ rw.runes = SubSeq(rw.runes, 1, Len(rw.runes) - Len(rw.emitted)) \o rw.emitted

\* C18: rewrite(s, 0) = s for every string s.
C18_ZeroParamsIdentity ==
    (rw.pc = "done" /\ rw.paramsCount = 0) => rw.runes = rw.query

\* rewriteQuery returned for a query with a "?" and a quote and paramsCount 0.
C18_Witness ==
    /\ rw.pc = "done" /\ rw.paramsCount = 0
    /\ \E i, j \in 1..Len(rw.query) : rw.query[i] = "?" /\ rw.query[j] = "'"
    /\ rw.runes = rw.query

\* C19: in the scan a quote character is pushed only outside any open quote:
\* the stack never holds more than one quote and is the quote that is open.
C19_QuotePushedOnlyOutside ==
    (rw.pc \in {"scan", "done"} /\ rw.paramsCount > 0) =>
        /\ Len(rw.stack) <= 1
        /\ rw.stack = OpenQuote(rw.query, rw.i - 1)

\* A cancellation signal has fired: the caller's context is done or the
\* alive signal is closed.
SignalFired == wt.ctxDone \/ conn.aliveCh = "closed"

Occurrences(seq, t) == Cardinality({ i \in 1..Len(seq) : seq[i] = t })

\* C21: over the commits of one transaction, repeated and failed ones
\* included, no text is carried to the remote service more often than exec
\* accepted it in that transaction: counting the calls of earlier commits of
\* the transaction and the calls of the commit now made, each accepted
\* statement is in at most one call and at most once in it.
C21_SubmittedAtMostOnce ==
    [][ (op' = "Commit" /\ conn.inTx) =>
            \A t \in Queries :
                Occurrences(carried, t) + Occurrences(CallTexts(calls'), t)
                    <= Occurrences(accepted, t) ]_vars

====
